---- MODULE Spec2Model ----
(***************************************************************************)
(* Slotted page of btreebase/slotted_pages (src/lib.rs).                   *)
(*                                                                         *)
(* A Page is PAGE_SIZE bytes: an 18-byte little-endian header (magic,      *)
(* lower_offset, upper_offset, overflow_page, flags) followed by the body. *)
(* The body holds a pointer table growing from offset 0 and cell payloads  *)
(* growing down from the end.  Operations: empty, add_cell, read_nth_cell, *)
(* cells_count.                                                            *)
(*                                                                         *)
(* Panics are modelled as outcomes of a call (the page keeps whatever was  *)
(* written before the panic).  u16 arithmetic that overflows panics when   *)
(* the build has overflow checks and wraps when it has not; the build is   *)
(* chosen once, in Init.                                                   *)
(***************************************************************************)
EXTENDS Integers, Sequences, FiniteSets, TLC

----------------------------------------------------------------------------
(* Bounds of the exploration *)

\* number of add_cell calls made on one page
MaxCalls == 4

\* number of add_cell calls made on a page that is being filled up
MaxFillCalls == 1024

----------------------------------------------------------------------------
(* Layout *)

PAGE_SIZE == 4096

U16 == 65536

\* define_layout!(page_header ...): field offsets and sizes
MAGIC_OFF == 0
LOWER_OFF == 4
UPPER_OFF == 6
OVERFLOW_OFF == 8
FLAGS_OFF == 16

\* page_header::SIZE, the sum of the field widths
HEADER_SIZE == 4 + 2 + 2 + 8 + 2

\* body: [u8; PAGE_SIZE - HEADER_SIZE]
BODY_SIZE == PAGE_SIZE - HEADER_SIZE

\* b"PAGE"
MAGIC == <<80, 65, 71, 69>>

\* 1 pointer is 4 bytes
PTR_SIZE == 4

----------------------------------------------------------------------------
(* Little-endian integers *)

RECURSIVE to_le_bytes(_, _)
to_le_bytes(v, n) ==
    IF n = 0 THEN <<>> ELSE <<v % 256>> \o to_le_bytes(v \div 256, n - 1)

RECURSIVE from_le_bytes(_)
from_le_bytes(bs) ==
    IF bs = <<>> THEN 0 ELSE bs[1] + 256 * from_le_bytes(Tail(bs))

----------------------------------------------------------------------------
(* Raw access to the buffer.  The buffer is a sequence of PAGE_SIZE bytes;  *)
(* the byte at (0-based) offset o is p[o + 1].                              *)

\* &p[from..from+n]
Slice(p, from, n) == SubSeq(p, from + 1, from + n)

\* p[from..from+bs.len()].copy_from_slice(bs)
CopyFromSlice(p, from, bs) ==
    SubSeq(p, 1, from) \o bs \o SubSeq(p, from + Len(bs) + 1, Len(p))

----------------------------------------------------------------------------
(* MaybePageId *)

(* An Option<PageId> is <<>> for None and <<id>> for Some(PageId(id)).      *)

NoPage == <<>>

\* from_page_id that stores page numbers zero-based
from_page_id_zero_based(p) == IF p = NoPage THEN 0 ELSE p[1] - 1

\* Option<PageId> -> MaybePageId(u64): p.map(|id| id.0.get()).unwrap_or(0)
from_page_id(p) == IF p = NoPage THEN 0 ELSE p[1]

\* MaybePageId(u64) -> Option<PageId>: NonZeroU64::new(self.0).map(PageId)
to_page_id(v) == IF v = 0 THEN NoPage ELSE <<v>>

----------------------------------------------------------------------------
(* Header view *)

magic(p) == Slice(p, MAGIC_OFF, 4)
lower_offset(p) == from_le_bytes(Slice(p, LOWER_OFF, 2))
upper_offset(p) == from_le_bytes(Slice(p, UPPER_OFF, 2))
overflow_page(p) == from_le_bytes(Slice(p, OVERFLOW_OFF, 8))
flags(p) == from_le_bytes(Slice(p, FLAGS_OFF, 2))

write_magic(p, bs) == CopyFromSlice(p, MAGIC_OFF, bs)
write_lower_offset(p, v) == CopyFromSlice(p, LOWER_OFF, to_le_bytes(v, 2))
write_upper_offset(p, v) == CopyFromSlice(p, UPPER_OFF, to_le_bytes(v, 2))
write_overflow_page(p, v) == CopyFromSlice(p, OVERFLOW_OFF, to_le_bytes(v, 8))

\* flags written one byte too far, over the first byte of the body
write_flags_shifted(p, v) == CopyFromSlice(p, FLAGS_OFF + 1, to_le_bytes(v, 2))

write_flags(p, v) == CopyFromSlice(p, FLAGS_OFF, to_le_bytes(v, 2))

\* the body as a sequence-like view: body offset i is buffer offset HEADER_SIZE+i
body(p, from, n) == Slice(p, HEADER_SIZE + from, n)

----------------------------------------------------------------------------
(* Page::empty *)

\* empty() that takes the whole page, header included, for the body
empty_whole_page ==
    LET s0 == <<>> \o [i \in 1..PAGE_SIZE |-> 0]
        s1 == write_magic(s0, MAGIC)
        s2 == write_lower_offset(s1, 0)
        s3 == write_upper_offset(s2, PAGE_SIZE % U16)
        s4 == write_overflow_page(s3, from_page_id(NoPage))
    IN  write_flags(s4, 0)

empty ==
    LET s0 == <<>> \o [i \in 1..PAGE_SIZE |-> 0]
        s1 == write_magic(s0, MAGIC)
        s2 == write_lower_offset(s1, 0)
        s3 == write_upper_offset(s2, (PAGE_SIZE - HEADER_SIZE) % U16)
        s4 == write_overflow_page(s3, from_page_id(NoPage))
    IN  write_flags(s4, 0)

----------------------------------------------------------------------------
(* u16 arithmetic.  With overflow checks the operation panics on overflow; *)
(* without them it wraps.                                                   *)

sub_u16(a, b, checked) ==
    IF a >= b THEN [ok |-> TRUE, v |-> a - b]
    ELSE IF checked THEN [ok |-> FALSE, v |-> 0]
    ELSE [ok |-> TRUE, v |-> a - b + U16]

add_u16(a, b, checked) ==
    IF a + b < U16 THEN [ok |-> TRUE, v |-> a + b]
    ELSE IF checked THEN [ok |-> FALSE, v |-> 0]
    ELSE [ok |-> TRUE, v |-> a + b - U16]

\* `x as u16`
as_u16(x) == x % U16

----------------------------------------------------------------------------
(* Outcomes of a call *)

OK == "ok"
OVERFLOW_PAGE == "Overflow page"
NOT_A_POINTER == "Not a pointer"
SLICE_INDEX == "slice index out of range"
ARITH_OVERFLOW == "arithmetic overflow"

\* a call on the page ends with the buffer p and the status st
Done(p, st) == [data |-> p, status |-> st]

\* a read ends with a status and, when ok, the bytes
Read(st, bs) == [status |-> st, bytes |-> bs]

----------------------------------------------------------------------------
(* Body cells and pointers *)

\* write_cell_data over a body that starts at offset 16, inside the flags
write_cell_data_short_header(p, from_offset, d) ==
    LET idx == from_offset
        idx_to == idx + Len(d)
    IN  IF idx_to > BODY_SIZE
        THEN Done(p, SLICE_INDEX)
        ELSE Done(CopyFromSlice(p, FLAGS_OFF + idx, d), OK)

\* self.body_mut()[idx..idx_to].copy_from_slice(data)
write_cell_data(p, from_offset, d) ==
    LET idx == from_offset
        idx_to == idx + Len(d)
    IN  IF idx_to > BODY_SIZE
        THEN Done(p, SLICE_INDEX)
        ELSE Done(CopyFromSlice(p, HEADER_SIZE + idx, d), OK)

\* &self.body()[idx..idx_to]
read_cell(p, from_offset, len) ==
    LET idx == from_offset
        idx_to == idx + len
    IN  IF idx_to > BODY_SIZE
        THEN Read(SLICE_INDEX, <<>>)
        ELSE Read(OK, body(p, idx, len))

\* two stores: addr at [idx, idx+2), then len at [idx+2, idx+4)
write_pointer(p, from_offset, addr, len) ==
    LET idx == from_offset
    IN  IF idx + 2 > BODY_SIZE
        THEN Done(p, SLICE_INDEX)
        ELSE LET p1 == CopyFromSlice(p, HEADER_SIZE + idx, to_le_bytes(addr, 2))
             IN  IF idx + 4 > BODY_SIZE
                 THEN Done(p1, SLICE_INDEX)
                 ELSE Done(CopyFromSlice(p1, HEADER_SIZE + idx + 2, to_le_bytes(len, 2)), OK)

\* result: [status, addr, len]
read_pointer(p, from_offset) ==
    IF from_offset > lower_offset(p)
    THEN [status |-> NOT_A_POINTER, addr |-> 0, len |-> 0]
    ELSE LET idx == from_offset
         IN  IF idx + 4 > BODY_SIZE
             THEN [status |-> SLICE_INDEX, addr |-> 0, len |-> 0]
             ELSE [status |-> OK,
                   addr |-> from_le_bytes(body(p, idx, 2)),
                   len |-> from_le_bytes(body(p, idx + 2, 2))]

----------------------------------------------------------------------------
(* Page::add_cell, Page::read_nth_cell, Page::cells_count *)

\* add_cell that advances lower_offset by the width of one u16, half a pointer
add_cell_short_step(p, d, checked) ==
    LET lower == lower_offset(p)
        upper == upper_offset(p)
        free == sub_u16(upper, lower, checked)
    IN  IF ~free.ok THEN Done(p, ARITH_OVERFLOW)
        ELSE IF Len(d) > free.v THEN Done(p, OVERFLOW_PAGE)
        ELSE
        LET addr == sub_u16(upper, as_u16(Len(d)), checked)
        IN  IF ~addr.ok THEN Done(p, ARITH_OVERFLOW)
            ELSE
            LET w1 == write_cell_data(p, addr.v, d)
            IN  IF w1.status # OK THEN w1
                ELSE
                LET w2 == write_pointer(w1.data, lower, addr.v, as_u16(Len(d)))
                IN  IF w2.status # OK THEN w2
                    ELSE
                    LET new_lower == add_u16(lower, 2, checked)
                        new_upper == addr.v
                    IN  IF ~new_lower.ok THEN Done(w2.data, ARITH_OVERFLOW)
                        ELSE Done(write_upper_offset(
                                    write_lower_offset(w2.data, new_lower.v),
                                    new_upper), OK)

add_cell(p, d, checked) ==
    LET lower == lower_offset(p)
        upper == upper_offset(p)
        free == sub_u16(upper, lower, checked)
    IN  IF ~free.ok THEN Done(p, ARITH_OVERFLOW)
        ELSE IF Len(d) > free.v THEN Done(p, OVERFLOW_PAGE)
        ELSE
        LET addr == sub_u16(upper, as_u16(Len(d)), checked)
        IN  IF ~addr.ok THEN Done(p, ARITH_OVERFLOW)
            ELSE
            LET w1 == write_cell_data(p, addr.v, d)
            IN  IF w1.status # OK THEN w1
                ELSE
                LET w2 == write_pointer(w1.data, lower, addr.v, as_u16(Len(d)))
                IN  IF w2.status # OK THEN w2
                    ELSE
                    LET new_lower == add_u16(lower, PTR_SIZE, checked)
                        new_upper == addr.v
                    IN  IF ~new_lower.ok THEN Done(w2.data, ARITH_OVERFLOW)
                        ELSE Done(write_upper_offset(
                                    write_lower_offset(w2.data, new_lower.v),
                                    new_upper), OK)

read_nth_cell(p, nth) ==
    LET at == as_u16(nth * 4)
        ptr == read_pointer(p, at)
    IN  IF ptr.status # OK THEN Read(ptr.status, <<>>)
        ELSE read_cell(p, ptr.addr, ptr.len)

\* cells_count that counts the pointer table's u16 words
cells_count_words(p) == lower_offset(p) \div 2

cells_count(p) == lower_offset(p) \div 4

----------------------------------------------------------------------------
(* State *)

VARIABLES
    data,             \* Page.data: [u8; PAGE_SIZE]
    overflow_checks,  \* whether the build panics on integer overflow
    log,              \* the add_cell calls made so far: payload, free space
                      \* (upper_offset - lower_offset, as an integer) seen by
                      \* the call, and how the call ended
    result            \* the last call: op, status, ordinal and bytes read

vars == <<data, overflow_checks, log, result>>

\* upper_offset - lower_offset as an integer (negative when the cursors crossed)
FreeSpace(p) == upper_offset(p) - lower_offset(p)

\* payloads offered to add_cell: non-zero bytes that vary with the position
\* in the payload and with the number of the call (add_cell never looks at
\* the bytes it stores)
Patterns ==
    [call \in 1..(MaxCalls + 1) |->
        <<>> \o [i \in 1..(BODY_SIZE + 1) |-> ((call * 16 + i) % 255) + 1]]

Payload(len, call) == SubSeq(Patterns[call], 1, len)

\* payload lengths offered in a state: empty, short, the lengths that leave
\* 2 and 0 bytes after the payload and its pointer, the free space itself,
\* and one byte more
Lens(p) ==
    {0, 3, FreeSpace(p) - 6, FreeSpace(p) - 4, FreeSpace(p), FreeSpace(p) + 1}
        \cap (0..(BODY_SIZE + 1))

\* the byte strings offered to add_cell in a state
Inputs(p, call) == {Payload(len, call) : len \in Lens(p)}

\* ordinals offered to read_nth_cell: every cell, the two past the last one,
\* and the first ordinal whose table offset 4*n does not fit in 16 bits
Ordinals(p) == (0..(cells_count(p) + 1)) \cup {U16 \div 4}

Init ==
    /\ data = empty
    /\ overflow_checks \in BOOLEAN
    /\ log = <<>>
    /\ result = [op |-> "empty", status |-> OK, nth |-> 0, bytes |-> <<>>]

AddCell ==
    /\ Len(log) < MaxCalls
    /\ \E d \in Inputs(data, Len(log) + 1) :
          LET r == add_cell(data, d, overflow_checks)
          IN  /\ data' = r.data
              /\ log' = Append(log, [data |-> d, free |-> FreeSpace(data),
                                     status |-> r.status])
              /\ result' = [op |-> "add_cell", status |-> r.status,
                            nth |-> 0, bytes |-> <<>>]
    /\ UNCHANGED overflow_checks

ReadNthCell ==
    /\ \E nth \in Ordinals(data) :
          LET r == read_nth_cell(data, nth)
          IN  result' = [op |-> "read_nth_cell", status |-> r.status,
                         nth |-> nth, bytes |-> r.bytes]
    /\ UNCHANGED <<data, overflow_checks, log>>

Next == AddCell \/ ReadNthCell

Spec == Init /\ [][Next]_vars

----------------------------------------------------------------------------
(* The header accessors on their own: a page, empty or holding one cell,   *)
(* whose header fields are written through header_mut_view().              *)

\* u16 values offered to the lower_offset, upper_offset and flags setters
HeaderValues == {0, 1, 258, BODY_SIZE, U16 - 1}

\* Option<PageId> values offered to the overflow_page setter
PageIds == {NoPage, <<1>>, <<258>>, <<2147483647>>}

InitHeader ==
    /\ overflow_checks \in BOOLEAN
    /\ \E d \in {<<>>, Payload(3, 1)} :
          IF d = <<>>
          THEN /\ data = empty
               /\ log = <<>>
               /\ result = [op |-> "empty", status |-> OK, nth |-> 0,
                            bytes |-> <<>>]
          ELSE /\ data = add_cell(empty, d, overflow_checks).data
               /\ log = <<[data |-> d, free |-> FreeSpace(empty),
                           status |-> add_cell(empty, d, overflow_checks).status]>>
               /\ result = [op |-> "add_cell",
                            status |-> add_cell(empty, d, overflow_checks).status,
                            nth |-> 0, bytes |-> <<>>]

\* header_mut_view().lower_offset_mut().write(v), then lower_offset().read()
SetLowerOffset ==
    /\ \E v \in HeaderValues :
          /\ data' = write_lower_offset(data, v)
          /\ result' = [op |-> "lower_offset", status |-> OK, arg |-> v,
                        back |-> lower_offset(write_lower_offset(data, v))]
    /\ UNCHANGED <<overflow_checks, log>>

SetUpperOffset ==
    /\ \E v \in HeaderValues :
          /\ data' = write_upper_offset(data, v)
          /\ result' = [op |-> "upper_offset", status |-> OK, arg |-> v,
                        back |-> upper_offset(write_upper_offset(data, v))]
    /\ UNCHANGED <<overflow_checks, log>>

\* overflow_page_mut().write(MaybePageId::from_page_id(p)), then
\* overflow_page().read().to_page_id()
SetOverflowPage ==
    /\ \E p \in PageIds :
          LET raw == from_page_id(p)
              q == write_overflow_page(data, raw)
          IN  /\ data' = q
              /\ result' = [op |-> "overflow_page", status |-> OK, arg |-> p,
                            raw |-> raw, back |-> to_page_id(overflow_page(q))]
    /\ UNCHANGED <<overflow_checks, log>>

SetFlags ==
    /\ \E v \in HeaderValues :
          /\ data' = write_flags(data, v)
          /\ result' = [op |-> "flags", status |-> OK, arg |-> v,
                        back |-> flags(write_flags(data, v))]
    /\ UNCHANGED <<overflow_checks, log>>

NextHeader == SetLowerOffset \/ SetUpperOffset \/ SetOverflowPage \/ SetFlags

SpecHeader == InitHeader /\ [][NextHeader]_vars

----------------------------------------------------------------------------
(* Filling a page up: one cell of any offered length, then empty cells     *)
(* until add_cell has failed a few times.  Empty cells take the least room *)
(* (a pointer entry each), so this is the longest run of successful calls. *)
(* The run starts from empty() or from the page that empty() and           *)
(* NearlyFull calls of add_cell(b"") leave.                                 *)

\* nine cells short of a pointer table that fills the body
NearlyFull == BODY_SIZE \div 4 - 9

\* one more add_cell(b"") on the page and call log st
AddEmpty(st, checked) ==
    [data |-> add_cell(st.data, <<>>, checked).data,
     log |-> Append(st.log, [data |-> <<>>, free |-> FreeSpace(st.data),
                             status |-> add_cell(st.data, <<>>, checked).status])]

\* n more calls of add_cell(b"") on st, split in halves
RECURSIVE AddEmpties(_, _, _)
AddEmpties(st, n, checked) ==
    IF n = 0 THEN st
    ELSE IF n = 1 THEN AddEmpty(st, checked)
    ELSE CHOOSE done \in {AddEmpties(half, n - n \div 2, checked) :
                              half \in {AddEmpties(st, n \div 2, checked)}} : TRUE

\* empty() followed by n calls of add_cell(b"")
Prefilled(n, checked) == AddEmpties([data |-> empty, log |-> <<>>], n, checked)

InitFill ==
    /\ overflow_checks \in BOOLEAN
    /\ \E st \in {Prefilled(n, overflow_checks) : n \in {0, NearlyFull}} :
          /\ data = st.data
          /\ log = st.log
          /\ result = [op |-> IF st.log = <<>> THEN "empty" ELSE "add_cell",
                       status |-> OK, nth |-> 0, bytes |-> <<>>]

FillInputs == IF log = <<>> THEN Inputs(data, 1) ELSE {<<>>}

FillCell ==
    /\ Len(log) < MaxFillCalls
    /\ \E d \in FillInputs :
          LET r == add_cell(data, d, overflow_checks)
          IN  /\ data' = r.data
              /\ log' = Append(log, [data |-> d, free |-> FreeSpace(data),
                                     status |-> r.status])
              /\ result' = [op |-> "add_cell", status |-> r.status,
                            nth |-> 0, bytes |-> <<>>]
    /\ UNCHANGED overflow_checks

SpecFill == InitFill /\ [][FillCell]_vars

----------------------------------------------------------------------------
(* A page that is linked to an overflow page through the header view, with *)
(* all flag bits set, before or between add_cell calls.                    *)

\* overflow_page_mut().write(MaybePageId::from_page_id(Some(id))) and
\* flags_mut().write(0xFFFF)
LinkPage ==
    /\ data' = write_flags(write_overflow_page(data, from_page_id(<<2147483647>>)),
                           U16 - 1)
    /\ result' = [op |-> "link", status |-> OK, nth |-> 0, bytes |-> <<>>]
    /\ UNCHANGED <<overflow_checks, log>>

NextLinked == LinkPage \/ AddCell

SpecLinked == Init /\ [][NextLinked]_vars

----------------------------------------------------------------------------
(* Helpers for the properties *)

\* how many of the add_cell calls succeeded
SucceededCount(l) == Cardinality({j \in 1..Len(l) : l[j].status = OK})

\* the add_cell calls that succeeded, in order
RECURSIVE Succeeded(_)
Succeeded(l) ==
    IF l = <<>> THEN <<>>
    ELSE IF l[1].status = OK THEN <<l[1]>> \o Succeeded(Tail(l))
    ELSE Succeeded(Tail(l))

\* this step is an add_cell call
IsAddStep == Len(log') = Len(log) + 1

LastCall == log'[Len(log')]

TypeOK ==
    /\ Len(data) = PAGE_SIZE
    /\ \A i \in 1..PAGE_SIZE : data[i] \in 0..255
    /\ Len(log) <= MaxCalls

----------------------------------------------------------------------------
(* Properties *)

\* every add_cell call so far was given no more bytes than the free space
AllWithinFree == \A j \in 1..Len(log) : Len(log[j].data) <= log[j].free

\* C1: round trip.  When every payload appended since empty() was no longer
\* than the free space at the moment of its add_cell call, every call
\* succeeded and read_nth_cell(i) returns exactly the i-th payload.
C1_RoundTrip ==
    AllWithinFree =>
        \A j \in 1..Len(log) :
            /\ log[j].status = OK
            /\ read_nth_cell(data, j - 1) = Read(OK, log[j].data)

\* C2: in every reachable state 0 <= lower_offset <= upper_offset <=
\* PAGE_SIZE - HEADER_SIZE.
C2_CursorOrder ==
    /\ 0 <= lower_offset(data)
    /\ lower_offset(data) <= upper_offset(data)
    /\ upper_offset(data) <= PAGE_SIZE - HEADER_SIZE

\* C3: exact fit.  An add_cell call whose payload is exactly as long as the
\* free space succeeds and leaves the free space equal to 0.
C3_ExactFit ==
    [][(IsAddStep /\ Len(LastCall.data) = FreeSpace(data))
          => (LastCall.status = OK /\ FreeSpace(data') = 0)]_vars

\* C4: overflow failure.  An add_cell call whose payload is longer than
\* upper_offset - lower_offset fails with "Overflow page" and leaves all
\* PAGE_SIZE bytes unchanged.
C4_OverflowFails ==
    [][(IsAddStep /\ Len(LastCall.data) > FreeSpace(data))
          => (LastCall.status = OVERFLOW_PAGE /\ data' = data)]_vars

\* C5: out-of-range read.  On a page with k cells, read_nth_cell(n) fails with
\* "Not a pointer" for every n >= k, n = k included.
C5_OutOfRangeRead ==
    (result.op = "read_nth_cell" /\ result.nth >= cells_count(data))
        => result.status = NOT_A_POINTER

\* C6: free-space shrink.  A successful add_cell(data) lowers
\* upper_offset - lower_offset (as an integer) by Len(data) + 4, and no step
\* raises it.
C6_FreeSpaceShrink ==
    [][/\ (IsAddStep /\ LastCall.status = OK)
            => FreeSpace(data') = FreeSpace(data) - (Len(LastCall.data) + 4)
       /\ FreeSpace(data') <= FreeSpace(data)]_vars

\* C6 witness: a non-empty payload was appended, and a later call failed
C6_Witness ==
    /\ Len(log) = 2
    /\ log[1].status = OK /\ Len(log[1].data) = 3
    /\ log[2].status = OVERFLOW_PAGE
    /\ FreeSpace(data) = BODY_SIZE - 7

\* C7: cell count.  lower_offset is a multiple of 4 and cells_count() is the
\* number of add_cell calls that succeeded since empty(); failed calls do not
\* count.
C7_CellCount ==
    /\ lower_offset(data) % 4 = 0
    /\ cells_count(data) = Len(Succeeded(log))

\* C7 witness: two calls succeeded and one failed
C7_Witness ==
    /\ Len(log) = 3
    /\ Len(Succeeded(log)) = 2
    /\ cells_count(data) = 2

\* C8: cell stability.  A cell that was stored reads back the same in every
\* later state, whatever add_cell calls follow.
C8_CellStable ==
    [][\A i \in 0..(cells_count(data) - 1) :
          read_nth_cell(data', i) = read_nth_cell(data, i)]_vars

\* C9: only the two named failures.  add_cell ends ok or with "Overflow page",
\* read_nth_cell ends ok or with "Not a pointer", and the two differ.
C9_OnlyNamedFailures ==
    /\ OVERFLOW_PAGE # NOT_A_POINTER
    /\ result.op = "add_cell" => result.status \in {OK, OVERFLOW_PAGE}
    /\ result.op = "read_nth_cell" => result.status \in {OK, NOT_A_POINTER}

\* C10: default state.  empty() has magic "PAGE", lower_offset 0, upper_offset
\* PAGE_SIZE - HEADER_SIZE, no overflow page, flags 0, no cells and a zero body.
C10_DefaultState ==
    result.op = "empty" =>
        /\ magic(data) = <<80, 65, 71, 69>>
        /\ lower_offset(data) = 0
        /\ upper_offset(data) = PAGE_SIZE - HEADER_SIZE
        /\ to_page_id(overflow_page(data)) = NoPage
        /\ flags(data) = 0
        /\ cells_count(data) = 0
        /\ Len(data) = PAGE_SIZE
        /\ \A i \in 0..(BODY_SIZE - 1) : data[HEADER_SIZE + i + 1] = 0

\* C10 witness: the page as empty() returned it
C10_Witness == result.op = "empty" /\ log = <<>> /\ Len(data) = PAGE_SIZE

\* C11: MaybePageId round trip.  from_page_id maps None to 0 and Some(id) to
\* id's non-zero value, to_page_id maps 0 to None and any other v to
\* Some(PageId(v)), and each conversion undoes the other (here through the
\* overflow_page field of the header).
C11_PageIdRoundTrip ==
    result.op = "overflow_page" =>
        /\ result.arg = NoPage => result.raw = 0
        /\ result.arg # NoPage => (result.raw = result.arg[1] /\ result.raw # 0)
        /\ result.raw = 0 => to_page_id(result.raw) = NoPage
        /\ result.raw # 0 => to_page_id(result.raw) = <<result.raw>>
        /\ to_page_id(from_page_id(result.arg)) = result.arg
        /\ from_page_id(to_page_id(result.raw)) = result.raw
        /\ result.back = result.arg

\* C11 witness: Some(PageId(2147483647)) was stored and read back
C11_Witness ==
    /\ result.op = "overflow_page"
    /\ result.arg = <<2147483647>>
    /\ result.back = <<2147483647>>
    /\ overflow_page(data) = 2147483647

\* bytes outside [off, off + n) are the same before and after the step
SameOutside(off, n) ==
    /\ Len(data') = Len(data)
    /\ Slice(data', 0, off) = Slice(data, 0, off)
    /\ Slice(data', off + n, PAGE_SIZE - off - n)
          = Slice(data, off + n, PAGE_SIZE - off - n)

Entry(p, i) == read_pointer(p, 4 * i)

\* C13: writes stay inside the free region.  A successful add_cell changes no
\* body byte outside the free region [lower_offset, upper_offset) it found;
\* its pointer entry [lower_offset, lower_offset + 4) and its payload
\* [addr, addr + len) lie inside that region and do not overlap.
C13_WritesInFreeRegion ==
    [][(IsAddStep /\ LastCall.status = OK) =>
          LET lower == lower_offset(data)
              upper == upper_offset(data)
              len == Len(LastCall.data)
              addr == upper_offset(data')
          IN  /\ body(data', 0, lower) = body(data, 0, lower)
              /\ body(data', upper, BODY_SIZE - upper)
                    = body(data, upper, BODY_SIZE - upper)
              /\ lower + 4 <= upper
              /\ lower <= addr /\ addr + len <= upper
              /\ len = 0 \/ lower + 4 <= addr]_vars

\* C14: cell data is packed from the end of the body.  With k cells the
\* stored entries satisfy addr_0 + len_0 = PAGE_SIZE - HEADER_SIZE,
\* addr_i + len_i = addr_(i-1), upper_offset = addr_(k-1) (the body size when
\* k = 0), upper_offset <= addr_i and addr_i + len_i <= PAGE_SIZE - HEADER_SIZE.
C14_PackedFromEnd ==
    LET k == cells_count(data)
    IN  /\ k = 0 => upper_offset(data) = PAGE_SIZE - HEADER_SIZE
        /\ k > 0 => upper_offset(data) = Entry(data, k - 1).addr
        /\ \A i \in 0..(k - 1) :
              /\ Entry(data, i).status = OK
              /\ i = 0 => Entry(data, i).addr + Entry(data, i).len
                              = PAGE_SIZE - HEADER_SIZE
              /\ i > 0 => Entry(data, i).addr + Entry(data, i).len
                              = Entry(data, i - 1).addr
              /\ upper_offset(data) <= Entry(data, i).addr
              /\ Entry(data, i).addr + Entry(data, i).len
                    <= PAGE_SIZE - HEADER_SIZE

\* C17: the table offset 4*n is computed without loss.  read_nth_cell(n) with
\* 4*n >= 2^16 fails with "Not a pointer", and no other ordinal offered
\* resolves to the table offset of n.
C17_OffsetWithoutLoss ==
    result.op = "read_nth_cell" =>
        /\ 4 * result.nth >= U16 => result.status = NOT_A_POINTER
        /\ \A m \in Ordinals(data) :
              m # result.nth => as_u16(m * 4) # as_u16(result.nth * 4)

\* C15: all or nothing.  An add_cell call that does not complete
\* successfully, whatever the reason, leaves all PAGE_SIZE bytes as they were.
C15_FailedCallWritesNothing ==
    [][(IsAddStep /\ LastCall.status # OK) => data' = data]_vars

\* C16: a page fills up.  The number of successful add_cell calls on one page
\* never exceeds floor((PAGE_SIZE - HEADER_SIZE) / 4), even when the cells are
\* empty, and the free space (upper_offset - lower_offset as an integer) never
\* grows again.
C16_BoundedAppends ==
    /\ [](SucceededCount(log) <= (PAGE_SIZE - HEADER_SIZE) \div 4)
    /\ [][FreeSpace(data') <= FreeSpace(data)]_vars

\* C18: across any add_cell call, successful or failed, the magic bytes stay
\* "PAGE" and overflow_page and flags keep the values they had before the
\* call; in the header only lower_offset and upper_offset may change.
C18_HeaderFrame ==
    [][IsAddStep =>
          /\ magic(data') = MAGIC
          /\ magic(data) = MAGIC
          /\ overflow_page(data') = overflow_page(data)
          /\ flags(data') = flags(data)
          /\ \A o \in 0..(HEADER_SIZE - 1) :
                (o < LOWER_OFF \/ o >= OVERFLOW_OFF) => data'[o + 1] = data[o + 1]]_vars

\* C18 witness: a page linked to overflow page 2^31-1 with all flags set
\* took a payload that fills the body up to the header, and another call
\* failed on it
C18_Witness ==
    /\ overflow_page(data) = 2147483647
    /\ flags(data) = U16 - 1
    /\ magic(data) = MAGIC
    /\ upper_offset(data) = 0
    /\ Len(log) >= 2
    /\ log[Len(log) - 1].status = OK
    /\ Len(log[Len(log) - 1].data) > 0
    /\ log[Len(log)].status # OK
    /\ result.op = "add_cell"

\* C16 witness: 1019 empty cells were appended and the next call failed
C16_Witness ==
    /\ Len(log) = (PAGE_SIZE - HEADER_SIZE) \div 4 + 1
    /\ SucceededCount(log) = (PAGE_SIZE - HEADER_SIZE) \div 4
    /\ log[1].data = <<>>
    /\ log[Len(log)].status # OK
    /\ cells_count(data) = 1019
    /\ FreeSpace(data) = 2

====
